---- MODULE Spec2Model ----
(***************************************************************************)
(* The parallel triangle-counting kernel of crates/algos                   *)
(* (triangle_count.rs): relabel_graph and global_triangle_count, with its  *)
(* atomic chunk dispatch, its thread-local counts, the final atomic adds   *)
(* and the scoped join, over undirected CSR graphs with sorted slices.     *)
(***************************************************************************)
EXTENDS Integers, Sequences, FiniteSets, TLC

(***************************************************************************)
(* Bounds of the model.                                                    *)
(***************************************************************************)
\* Init holds every simple graph of up to MaxNodes nodes
MaxNodes == 3
\* InitLayouts holds every graph with self-loops of up to MaxLoopNodes nodes
MaxLoopNodes == 3
\* and every graph with repeated edges of up to MaxMultiNodes nodes,
MaxMultiNodes == 3
\* a repeated edge being stored MaxMult times
MaxMult == 2
\* largest rayon::current_num_threads()
MaxThreads == 2
\* chunk sizes 1..MaxChunk are tried beside the program's CHUNK_SIZE
MaxChunk == 2
\* width of NI in bits (stands for 32 or the pointer width)
NIBits == 16
\* InitBuilder holds every edge list of up to MaxEdges records
MaxEdges == 3
\* over the node ids 0..MaxId
MaxId == 2
\* global_triangle_count is invoked up to MaxRuns times in SpecRerun
MaxRuns == 2
\* SpecNarrow runs the dispatch on an NI of NarrowBits bits,
NarrowBits == 3
\* each invocation handing out at most MaxClaims ranges
MaxClaims == 9
\* InitSlice holds a score vector of every length up to MaxLen
MaxLen == 4
\* and every slice whose step is at most MaxStep in absolute value
MaxStep == 3

(***************************************************************************)
(* Program constants.                                                      *)
(***************************************************************************)
CHUNK_SIZE == 64

VARIABLES
    graph,            \* the UndirectedCsrGraph: [node_count, nbrs]
    built,            \* the graph as the builder produced it (history)
    new_id,           \* original id -> current id (history of relabelling)
    relabeled,        \* relabel_graph has run
    chunk_size,       \* the chunk size of this build
    num_threads,      \* rayon::current_num_threads()
    ni_modulus,       \* 2^width of NI
    kpc,              \* the kernel: "idle", "running", "returned"
    next_chunk,       \* Atomic<NI>, the chunk cursor
    total_triangles,  \* AtomicU64
    pc,               \* worker -> "idle", "claim", "process", "add", "done"
    triangles,        \* worker -> its thread-local count
    range,            \* worker -> <<start, end>> of the chunk it holds
    claim_log,        \* the ranges claimed in this invocation, in cursor order
    enumerated,       \* node id -> times `for u in start..end` reached it
    adds,             \* worker -> number of its adds to total_triangles
    results,          \* per invocation, in order: the graph it was given,
                      \* what it returned, whether the graph was relabelled
    edge_list,        \* create_graph: the EdgeList, a sequence of <<u, v>>
    csr_layout,       \* "Unsorted", "Sorted" or "Deduplicated"
    orientation,      \* "Directed" or "Undirected"
    csr,              \* the graph create_graph built, NoGraph before
    action,           \* the arrow_flight Action received: [type, body]
    flight,           \* Result<FlightAction, Status> of the conversion
    scores,           \* PageRankResult.scores
    slice,            \* the PySlice asked for: [start, stop, step], each
                      \* << >> (None) or <<n>>
    sliced            \* PyResult<PyObject> of get_slice, NotSliced before

\* the state of create_graph
builder_vars == << edge_list, csr_layout, orientation, csr >>

\* the state of global_triangle_count and relabel_graph
kernel_vars == << graph, built, new_id, relabeled, chunk_size, num_threads,
                  ni_modulus, kpc, next_chunk, total_triangles, pc, triangles,
                  range, claim_log, enumerated, adds, results >>

\* the state of the server's conversion of an Action
server_vars == << action, flight >>

\* the state of PageRankResult::get_slice
pr_vars == << scores, slice, sliced >>

vars == << graph, built, new_id, relabeled, chunk_size, num_threads, ni_modulus,
           kpc, next_chunk, total_triangles, pc, triangles, range, claim_log,
           enumerated, adds, results, builder_vars, server_vars, pr_vars >>

(***************************************************************************)
(* Helpers on sequences and sets.                                          *)
(***************************************************************************)
Min(a, b) == IF a <= b THEN a ELSE b

RangeOf(s) == { s[i] : i \in DOMAIN s }

RECURSIVE Pow2(_)
Pow2(n) == IF n = 0 THEN 1 ELSE 2 * Pow2(n - 1)

RECURSIVE SumOver(_, _)
SumOver(S, f) ==
    IF S = {} THEN 0
    ELSE LET x == CHOOSE y \in S : TRUE
         IN f[x] + SumOver(S \ {x}, f)

\* the ascending sequence that holds x exactly mult[x] times, x \in S
RECURSIVE SortedSeq(_, _)
SortedSeq(S, mult) ==
    IF S = {} THEN << >>
    ELSE LET x == CHOOSE y \in S : \A z \in S : y <= z
         IN [i \in 1..mult[x] |-> x] \o SortedSeq(S \ {x}, mult)

\* a sequence sorted ascending, duplicates kept
SortAsc(s) ==
    SortedSeq(RangeOf(s),
              [x \in RangeOf(s) |-> Cardinality({i \in DOMAIN s : s[i] = x})])

IsAscending(s) == \A i \in 1..(Len(s) - 1) : s[i] <= s[i + 1]

IsStrictlyAscending(s) == \A i \in 1..(Len(s) - 1) : s[i] < s[i + 1]

(***************************************************************************)
(* The graph: node_count() and neighbors_iter(u).                          *)
(***************************************************************************)
Nodes(g) == 0..(g.node_count - 1)

neighbors(g, u) == g.nbrs[u]

degree(g, u) == Len(g.nbrs[u])

Adjacent(g, u, v) == v \in RangeOf(g.nbrs[u])

\* the undirected graph on n nodes in which the unordered pair {u, v}
\* (u = v: a self-loop) is stored mult[<<u, v>>] times, u <= v, with
\* ascending slices; a self-loop appears once per copy in its node's slice
BuildGraph(n, mult) ==
    [ node_count |-> n,
      nbrs |-> [u \in 0..(n - 1) |->
                  SortedSeq({v \in 0..(n - 1) :
                                mult[IF u <= v THEN <<u, v>> ELSE <<v, u>>] > 0},
                            [v \in 0..(n - 1) |->
                                mult[IF u <= v THEN <<u, v>> ELSE <<v, u>>]])] ]

Pairs(n) == { p \in (0..(n - 1)) \X (0..(n - 1)) : p[1] < p[2] }

Loops(n) == { <<u, u>> : u \in 0..(n - 1) }

\* the graph with the given undirected edges, each stored once
GraphOfEdges(n, E) ==
    BuildGraph(n, [p \in Pairs(n) \cup Loops(n) |-> IF p \in E THEN 1 ELSE 0])

\* Deduplicated layout, no self-loops
SimpleGraphs(maxn) ==
    UNION { { BuildGraph(n, [p \in Pairs(n) \cup Loops(n) |->
                                IF p \in E THEN 1 ELSE 0]) :
              E \in SUBSET Pairs(n) } : n \in 0..maxn }

\* Deduplicated layout, self-loops allowed
LoopGraphs(maxn) ==
    UNION { { BuildGraph(n, [p \in Pairs(n) \cup Loops(n) |->
                                IF p \in E THEN 1 ELSE 0]) :
              E \in SUBSET (Pairs(n) \cup Loops(n)) } : n \in 0..maxn }

\* for each node count the graph without edges and the complete graph
ExtremeGraphs(maxn) ==
    UNION { { GraphOfEdges(n, {}), GraphOfEdges(n, Pairs(n)) } : n \in 0..maxn }

\* Sorted layout, no self-loops: an edge is absent, stored once or stored
\* MaxMult times
SortedGraphs(maxn) ==
    UNION { { BuildGraph(n, [p \in Pairs(n) \cup Loops(n) |->
                                IF p \in Pairs(n) THEN m[p] ELSE 0]) :
              m \in [Pairs(n) -> {0, 1, MaxMult}] } : n \in 0..maxn }

\* tests::test_tc_two_components: two disjoint triangles
TwoComponents ==
    GraphOfEdges(6, {<<0, 1>>, <<1, 2>>, <<0, 2>>, <<3, 4>>, <<4, 5>>, <<3, 5>>})

\* tests::test_tc_connected_triangles: two triangles sharing node 0
ConnectedTriangles ==
    GraphOfEdges(5, {<<0, 1>>, <<1, 2>>, <<0, 2>>, <<0, 3>>, <<3, 4>>, <<0, 4>>})

\* tests::test_tc_diamond
Diamond ==
    GraphOfEdges(4, {<<0, 1>>, <<1, 2>>, <<0, 2>>, <<1, 3>>, <<2, 3>>})

\* the chordless four-cycle and the complete graph on four nodes
FourCycle == GraphOfEdges(4, {<<0, 1>>, <<1, 2>>, <<2, 3>>, <<0, 3>>})

K4 == GraphOfEdges(4, Pairs(4))

TestGraphs == {TwoComponents, ConnectedTriangles, Diamond, FourCycle, K4}

IsSorted(g) == \A u \in Nodes(g) : IsAscending(g.nbrs[u])

IsDeduplicated(g) == \A u \in Nodes(g) : IsStrictlyAscending(g.nbrs[u])

HasSelfLoop(g) == \E u \in Nodes(g) : Adjacent(g, u, u)

\* the unordered triples of distinct, pairwise adjacent nodes
Triangles(g) ==
    { T \in SUBSET Nodes(g) :
        /\ Cardinality(T) = 3
        /\ \A a, b \in T : a # b => Adjacent(g, a, b) }

NumTriangles(g) == Cardinality(Triangles(g))

\* the graph without its self-loop entries
WithoutSelfLoops(g) ==
    [ node_count |-> g.node_count,
      nbrs |-> [u \in Nodes(g) |-> SelectSeq(g.nbrs[u], LAMBDA x : x # u)] ]

(***************************************************************************)
(* create_graph: the CSR builder run on an EdgeList.                       *)
(***************************************************************************)
Layouts == {"Unsorted", "Sorted", "Deduplicated"}

Orientations == {"Directed", "Undirected"}

\* the edge lists of at most maxlen records over the ids 0..maxid
EdgeLists(maxid, maxlen) ==
    UNION { [1..n -> (0..maxid) \X (0..maxid)] : n \in 0..maxlen }

\* before create_graph has run
NoGraph == [orientation |-> "None"]

Max(S) == CHOOSE x \in S : \A y \in S : y <= x

\* step 1: node_count = max_id + 1, 0 for the empty edge list
node_count_of(edges) ==
    IF edges = << >>
    THEN 0
    ELSE Max(UNION { {edges[i][1], edges[i][2]} : i \in DOMAIN edges }) + 1

\* mutant: the in-neighbours are built from the edge list as given
reversed_not(edges) == edges

\* the reversed edge list, from which the in-neighbours are built
reversed(edges) == [i \in DOMAIN edges |-> <<edges[i][2], edges[i][1]>>]

\* mutant: an undirected edge is placed at its source only
place_edge_at_source(targets, e, undirected) ==
    [targets EXCEPT ![e[1]] = Append(@, e[2])]

\* steps 2 to 4 for one edge (u, v): v goes to the slice of u; under
\* Undirected u also goes to the slice of v, a self-loop being placed once
place_edge(targets, e, undirected) ==
    IF undirected /\ e[1] # e[2]
    THEN [targets EXCEPT ![e[1]] = Append(@, e[2]), ![e[2]] = Append(@, e[1])]
    ELSE [targets EXCEPT ![e[1]] = Append(@, e[2])]

\* steps 2 to 4: the edges are placed in the order of the list
RECURSIVE place(_, _, _, _)
place(edges, i, undirected, targets) ==
    IF i > Len(edges) THEN targets
    ELSE place(edges, i + 1, undirected,
               place_edge(targets, edges[i], undirected))

\* mutant: the slice is sorted, its duplicates stay
compact_not(s) == SortAsc(s)

\* step 5 under Deduplicated: the sorted slice with its duplicates compacted
compact(s) == SortedSeq(RangeOf(s), [x \in RangeOf(s) |-> 1])

\* step 5: the slice under the layout
apply_layout(s, layout) ==
    CASE layout = "Unsorted" -> s
      [] layout = "Sorted" -> SortAsc(s)
      [] layout = "Deduplicated" -> compact(s)

\* the neighbour slices of every node
adjacency(edges, layout, undirected) ==
    LET n == node_count_of(edges)
        placed == place(edges, 1, undirected, [u \in 0..(n - 1) |-> << >>])
    IN [u \in 0..(n - 1) |-> apply_layout(placed[u], layout)]

\* len(targets): the slices laid end to end
targets_len(nbrs) == SumOver(DOMAIN nbrs, [u \in DOMAIN nbrs |-> Len(nbrs[u])])

\* the entries u in the slice of u
self_loop_count(nbrs) ==
    SumOver(DOMAIN nbrs,
            [u \in DOMAIN nbrs |->
                Cardinality({i \in DOMAIN nbrs[u] : nbrs[u][i] = u})])

\* edge-count contract, Undirected
edge_count_undirected(edges, nbrs) ==
    (targets_len(nbrs) + self_loop_count(nbrs)) \div 2

\* edge-count contract, Directed
edge_count_directed(edges, out) == targets_len(out)

\* G::from(edge_list) for the layout and the orientation asked for
from_edge_list(edges, layout, orient) ==
    IF orient = "Undirected"
    THEN LET nbrs == adjacency(edges, layout, TRUE)
         IN [ orientation |-> "Undirected",
              node_count |-> node_count_of(edges),
              edge_count |-> edge_count_undirected(edges, nbrs),
              nbrs |-> nbrs ]
    ELSE LET out == adjacency(edges, layout, FALSE)
         IN [ orientation |-> "Directed",
              node_count |-> node_count_of(edges),
              edge_count |-> edge_count_directed(edges, out),
              out |-> out,
              inn |-> adjacency(reversed(edges), layout, FALSE) ]

\* DirectedGraph
out_neighbors(g, u) == g.out[u]

in_neighbors(g, u) == g.inn[u]

out_degree(g, u) == Len(g.out[u])

in_degree(g, u) == Len(g.inn[u])

\* the number of entries x in the slice s
Occurrences(s, x) == Cardinality({i \in DOMAIN s : s[i] = x})

(***************************************************************************)
(* Degree-ordered relabelling (UndirectedCsrGraph::to_degree_ordered).     *)
(***************************************************************************)
\* the new id of node i: its position when the nodes are ordered by
\* non-increasing degree, ties by ascending original id
DegreeRank(g, i) ==
    Cardinality({ j \in Nodes(g) :
                    \/ degree(g, j) > degree(g, i)
                    \/ (degree(g, j) = degree(g, i) /\ j < i) })

to_degree_ordered(g) ==
    [ node_count |-> g.node_count,
      nbrs |-> [k \in Nodes(g) |->
                  LET old == CHOOSE i \in Nodes(g) : DegreeRank(g, i) = k
                  IN SortAsc([x \in DOMAIN g.nbrs[old] |->
                                 DegreeRank(g, g.nbrs[old][x])])] ]

(***************************************************************************)
(* The inner enumeration of global_triangle_count, as the code runs it.    *)
(***************************************************************************)
\* mutant: the break on v comes one id late, v == u + 1 is taken
BreakOnV_late(v, u) == v > u + 1

\* mutant: the break on v is missing, every neighbour v of u is taken
BreakOnV_missing(v, u) == FALSE

\* `if v > u { break; }`
BreakOnV(v, u) == v > u

\* mutant: the break on w is missing, every neighbour w of v is looked up
BreakOnW_missing(w, v) == FALSE

\* `if w > v { break; }`
BreakOnW(w, v) == w > v

\* mutant: a plain iterator, the x >= w that ends the scan is not put back
RECURSIVE put_back_scan_consuming(_, _, _)
put_back_scan_consuming(su, p, w) ==
    IF p > Len(su) THEN [pos |-> p, hit |-> 0]
    ELSE IF su[p] >= w
         THEN [pos |-> p + 1, hit |-> IF su[p] = w THEN 1 ELSE 0]
         ELSE put_back_scan_consuming(su, p + 1, w)

\* `while let Some(x) = it.next()` for one w: the put-back iterator stands at
\* position p of neighbors(u) (the next element it yields is su[p]). Yields
\* the position it is left at and whether x == w was met; an x >= w is put
\* back, so the position stays on it.
RECURSIVE put_back_scan(_, _, _)
put_back_scan(su, p, w) ==
    IF p > Len(su) THEN [pos |-> p, hit |-> 0]
    ELSE IF su[p] >= w
         THEN [pos |-> p, hit |-> IF su[p] = w THEN 1 ELSE 0]
         ELSE put_back_scan(su, p + 1, w)

\* `for &w in graph.neighbors_iter(v)` from index j on, the iterator over
\* neighbors(u) at position p, acc triangles found so far for this (u, v)
RECURSIVE intersect(_, _, _, _, _, _)
intersect(su, sv, v, j, p, acc) ==
    IF j > Len(sv) THEN acc
    ELSE IF BreakOnW(sv[j], v) THEN acc
    ELSE LET r == put_back_scan(su, p, sv[j])
         IN intersect(su, sv, v, j + 1, r.pos, acc + r.hit)

\* the same loop, keeping for every w it reaches where the iterator stood
\* (from), where it was left (pos), whether x == w was met (hit) and how many
\* elements it.next() yielded (taken: those passed over, and the one put back)
RECURSIVE scan_trace(_, _, _, _, _)
scan_trace(su, sv, v, j, p) ==
    IF j > Len(sv) THEN << >>
    ELSE IF BreakOnW(sv[j], v) THEN << >>
    ELSE LET r == put_back_scan(su, p, sv[j])
         IN << [ w |-> sv[j], from |-> p, pos |-> r.pos, hit |-> r.hit,
                 taken |-> (r.pos - p) + (IF r.pos <= Len(su) THEN 1 ELSE 0) ] >>
               \o scan_trace(su, sv, v, j + 1, r.pos)

\* `for &v in graph.neighbors_iter(u)` from index i on
RECURSIVE count_node(_, _, _, _)
count_node(g, u, i, acc) ==
    IF i > Len(neighbors(g, u)) THEN acc
    ELSE IF BreakOnV(neighbors(g, u)[i], u) THEN acc
    ELSE count_node(g, u, i + 1,
                    acc + intersect(neighbors(g, u),
                                    neighbors(g, neighbors(g, u)[i]),
                                    neighbors(g, u)[i], 1, 1, 0))

\* `for u in start..end`: what one chunk adds to the thread-local count
count_chunk(g, start, end) ==
    SumOver(start..(end - 1), [u \in start..(end - 1) |-> count_node(g, u, 1, 0)])

\* the enumeration run over all nodes by one thread in one chunk
count_sequential(g) == count_chunk(g, 0, g.node_count)

(***************************************************************************)
(* The chunk dispatch.                                                     *)
(***************************************************************************)
\* NI::fetch_add: the new value of the cursor (the old one is returned)
fetch_add(cur, n, modulus) == (cur + n) % modulus

\* mutant: the loop is left one node early
stop_claiming_early(start, node_count) == start + 1 >= node_count

\* `if start >= graph.node_count() { break; }`
stop_claiming(start, node_count) == start >= node_count

\* mutant: the range is closed, it takes the first node of the next chunk
chunk_end_inclusive(start, chunk, node_count, modulus) ==
    Min((start + chunk + 1) % modulus, node_count)

\* `(start + NI::new(CHUNK_SIZE)).min(graph.node_count())`; the sum wraps at
\* the width of NI in a build without overflow checks
chunk_end(start, chunk, node_count, modulus) ==
    Min((start + chunk) % modulus, node_count)

\* mutant: the scope waits for a task that never finishes
scope_joined_never(pcs) == FALSE

\* mutant: the tasks are spawned outside a scope, nothing waits for them
scope_joined_unscoped(pcs) == TRUE

\* rayon::scope returns when every spawned task has finished
scope_joined(pcs) == \A w \in DOMAIN pcs : pcs[w] = "done"

\* mutant: the layout is checked and a violation is returned as an error
kernel_result_checked(g, tc) ==
    IF IsDeduplicated(g)
    THEN [kind |-> "count", value |-> tc]
    ELSE [kind |-> "LayoutViolation", value |-> 0]

\* the value global_triangle_count returns: a u64, no error case
kernel_result(g, tc) == [kind |-> "count", value |-> tc]

\* the visit counts after the nodes of R have been enumerated once more
visit(seen, R) ==
    [u \in (DOMAIN seen) \cup R |->
        (IF u \in DOMAIN seen THEN seen[u] ELSE 0) + (IF u \in R THEN 1 ELSE 0)]

Workers == 1..num_threads

ChunkSizes == (1..MaxChunk) \cup {CHUNK_SIZE}

(***************************************************************************)
(* The server's conversion of an arrow_flight Action into a FlightAction   *)
(* (crates/server, actions.rs).                                            *)
(***************************************************************************)
\* action.type: the four the server knows, and others (the match is on the
\* exact string)
ActionTypes ==
    {"create", "list", "compute", "relabel", "delete", "Create", "LIST", ""}

\* the keys a body may hold: those of the three configs and one of none
Fields ==
    {"graph_name", "file_format", "path", "csr_layout", "orientation",
     "algorithm", "property_key", "comment"}

\* action.body as serde_json reads it: bytes that are no JSON document, or
\* a JSON object with the keys `fields`, the values of the keys in
\* `mistyped` not being of the type (or enum variant) the config declares
Bodies ==
    { [syntax |-> "malformed", fields |-> {}, mistyped |-> {}] }
        \cup UNION { { [syntax |-> "json", fields |-> F, mistyped |-> M] :
                         M \in { X \in SUBSET F : Cardinality(X) <= 1 } } :
                     F \in SUBSET Fields }

\* the fields without #[serde(default)]
required_fields(config) ==
    CASE config = "CreateGraphFromFileConfig" ->
            {"graph_name", "file_format", "path"}
      [] config = "ComputeConfig" -> {"graph_name", "algorithm", "property_key"}
      [] config = "RelabelConfig" -> {"graph_name"}

\* the fields with #[serde(default)]
default_fields(config) ==
    CASE config = "CreateGraphFromFileConfig" -> {"csr_layout", "orientation"}
      [] config = "ComputeConfig" -> {}
      [] config = "RelabelConfig" -> {}

\* serde_json::from_slice::<config>(body): keys the config does not declare
\* are skipped, absent defaulted fields take their default
from_slice(config, body) ==
    IF body.syntax # "json"
    THEN [ok |-> FALSE, error |-> "syntax error"]
    ELSE IF body.mistyped
               \cap (required_fields(config) \cup default_fields(config)) # {}
    THEN [ok |-> FALSE, error |-> "invalid type"]
    ELSE IF ~(required_fields(config) \subseteq body.fields)
    THEN [ok |-> FALSE, error |-> "missing field"]
    ELSE [ok |-> TRUE,
          value |-> [ config |-> config,
                      given |-> body.fields
                                  \cap (required_fields(config)
                                          \cup default_fields(config)),
                      defaulted |-> default_fields(config) \ body.fields ]]

\* mutant: the JSON error is reported as an invalid argument
from_json_error_invalid_argument(error) ==
    [ok |-> FALSE, code |-> "InvalidArgument", message |-> <<"JsonError: ", error>>]

\* Status::internal(format!("JsonError: {error:?}"))
from_json_error(error) ==
    [ok |-> FALSE, code |-> "Internal", message |-> <<"JsonError: ", error>>]

\* impl TryFrom<Action> for the config: from_slice(..).map_err(from_json_error)
try_into(config, a) ==
    IF from_slice(config, a.body).ok
    THEN from_slice(config, a.body)
    ELSE from_json_error(from_slice(config, a.body).error)

\* mutant: the arms are matched without regard to case
match_arm_ignoring_case(action_type) ==
    CASE action_type \in {"create", "Create"} -> "create"
      [] action_type \in {"list", "LIST"} -> "list"
      [] action_type = "compute" -> "compute"
      [] action_type = "relabel" -> "relabel"
      [] OTHER -> "_"

\* `match action_type`: the arm taken
match_arm(action_type) ==
    CASE action_type = "create" -> "create"
      [] action_type = "list" -> "list"
      [] action_type = "compute" -> "compute"
      [] action_type = "relabel" -> "relabel"
      [] OTHER -> "_"

\* what `action.try_into()?` and the variant make of a config
wrap(kind, r) ==
    IF r.ok THEN [ok |-> TRUE, kind |-> kind, config |-> r.value] ELSE r

\* impl TryFrom<Action> for FlightAction
try_from(a) ==
    CASE match_arm(a.type) = "create" ->
            wrap("Create", try_into("CreateGraphFromFileConfig", a))
      [] match_arm(a.type) = "list" -> [ok |-> TRUE, kind |-> "List"]
      [] match_arm(a.type) = "compute" ->
            wrap("Compute", try_into("ComputeConfig", a))
      [] match_arm(a.type) = "relabel" ->
            wrap("Relabel", try_into("RelabelConfig", a))
      [] match_arm(a.type) = "_" ->
            [ok |-> FALSE, code |-> "InvalidArgument",
             message |-> <<"Unknown action type: ", a.type>>]

(***************************************************************************)
(* PageRankResult::get_slice (crates/unladen_swallow, pr.rs).              *)
(***************************************************************************)
\* the score vectors: one of each length, its values pairwise distinct
ScoreVectors(maxlen) == { [i \in 1..n |-> 10 * i] : n \in 0..maxlen }

\* an optional integer of a slice: None or one of the values of S
Optional(S) == { << >> } \cup { <<n>> : n \in S }

\* the slices: start and stop reach past both ends of the longest vector,
\* the step may be 0
Slices(maxlen, maxstep) ==
    [ start : Optional((0 - maxlen - 1)..(maxlen + 1)),
      stop : Optional((0 - maxlen - 1)..(maxlen + 1)),
      step : Optional((0 - maxstep)..maxstep) ]

\* isize::unsigned_abs
unsigned_abs(x) == IF x < 0 THEN 0 - x ELSE x

\* a given start or stop brought into the sequence, as slice.indices does:
\* a negative one counts from the end, one beyond an end is moved to the
\* end the step walks from or towards
adjust(x, step, len) ==
    IF x < 0
    THEN IF x + len < 0 THEN (IF step < 0 THEN 0 - 1 ELSE 0) ELSE x + len
    ELSE IF x >= len THEN (IF step < 0 THEN len - 1 ELSE len) ELSE x

\* slice.indices(len): the PySliceIndices, or the ValueError of a step 0
indices(sl, len) ==
    LET step == IF sl.step = << >> THEN 1 ELSE sl.step[1]
    IN IF step = 0
       THEN [ok |-> FALSE, error |-> "ValueError"]
       ELSE [ ok |-> TRUE,
              start |-> IF sl.start = << >>
                        THEN (IF step < 0 THEN len - 1 ELSE 0)
                        ELSE adjust(sl.start[1], step, len),
              stop |-> IF sl.stop = << >>
                       THEN (IF step < 0 THEN 0 - 1 ELSE len)
                       ELSE adjust(sl.stop[1], step, len),
              step |-> step ]

\* check_bounds(lo..hi, index, ..): Ok(()) exactly when lo <= index < hi
check_bounds(lo, hi, index) == lo <= index /\ index < hi

PyIndexError == [ok |-> FALSE, error |-> "IndexError"]

\* .rev()
rev(s) == [i \in 1..Len(s) |-> s[Len(s) + 1 - i]]

\* .step_by(n): the first element and every n-th after it
step_by(s, n) == [k \in 1..((Len(s) + n - 1) \div n) |-> s[(k - 1) * n + 1]]

\* `&self.scores[range]` and the four branches on step; indexing panics when
\* the range is decreasing or ends beyond the vector
slice_range(sc, start, stop, step) ==
    IF start > stop \/ stop > Len(sc)
    THEN [ok |-> FALSE, error |-> "panic"]
    ELSE LET part == [i \in 1..(stop - start) |-> sc[start + i]]
         IN [ ok |-> TRUE,
              list |-> IF step = 1 THEN part
                       ELSE IF step = 0 - 1 THEN rev(part)
                       ELSE IF step > 1 THEN step_by(part, unsigned_abs(step))
                       ELSE step_by(rev(part), unsigned_abs(step)) ]

\* PageRankResult::get_slice
get_slice(sc, sl) ==
    LET len == Len(sc)
        ind == indices(sl, len)
    IN IF ~ind.ok THEN ind
       ELSE IF ~check_bounds(0, len, ind.start) THEN PyIndexError
       ELSE IF ind.step >= 0
       THEN IF ~check_bounds(0, len + 1, ind.stop) THEN PyIndexError
            ELSE slice_range(sc,
                             unsigned_abs(ind.start),
                             IF unsigned_abs(ind.stop) >= unsigned_abs(ind.start)
                             THEN unsigned_abs(ind.stop)
                             ELSE unsigned_abs(ind.start),
                             ind.step)
       ELSE IF ~check_bounds(0 - 1, len, ind.stop) THEN PyIndexError
            ELSE slice_range(sc,
                             Min(unsigned_abs(ind.stop + 1),
                                 unsigned_abs(ind.start + 1) - 1),
                             unsigned_abs(ind.start + 1),
                             ind.step)

(***************************************************************************)
(* Initial states: a graph as built, before any kernel has run.            *)
(***************************************************************************)
\* no Action has been received
NoAction ==
    [type |-> "", body |-> [syntax |-> "empty", fields |-> {}, mistyped |-> {}]]

\* no conversion has been made
NotConverted == [ok |-> FALSE, code |-> "None"]

BuilderIdle ==
    /\ edge_list = << >>
    /\ csr_layout = "Unsorted"
    /\ orientation = "Undirected"
    /\ csr = NoGraph

ServerIdle ==
    /\ action = NoAction
    /\ flight = NotConverted

\* get_slice has not been called
NotSliced == [ok |-> FALSE, error |-> "None"]

PageRankIdle ==
    /\ scores = << >>
    /\ slice = [start |-> << >>, stop |-> << >>, step |-> << >>]
    /\ sliced = NotSliced

InitWith(graphs, chunks) ==
    /\ graph \in graphs
    /\ built = graph
    /\ new_id = [u \in Nodes(graph) |-> u]
    /\ relabeled = FALSE
    /\ chunk_size \in chunks
    /\ num_threads \in 1..MaxThreads
    /\ ni_modulus = Pow2(NIBits)
    /\ kpc = "idle"
    /\ next_chunk = 0
    /\ total_triangles = 0
    /\ pc = [w \in Workers |-> "idle"]
    /\ triangles = [w \in Workers |-> 0]
    /\ range = [w \in Workers |-> <<0, 0>>]
    /\ claim_log = << >>
    /\ enumerated = << >>
    /\ adds = [w \in Workers |-> 0]
    /\ results = << >>
    /\ BuilderIdle
    /\ ServerIdle
    /\ PageRankIdle

\* the dispatch under every chunk size: the simple Deduplicated graphs and
\* the graphs of the tests
Init == InitWith(SimpleGraphs(MaxNodes) \cup TestGraphs, ChunkSizes)

\* termination depends on the graph through node_count alone: for every node
\* count the sparsest and the densest graph, and the tests' graphs
InitLive == InitWith(ExtremeGraphs(MaxNodes) \cup TestGraphs, ChunkSizes)

\* the layouts under the program's chunk size: Deduplicated graphs with
\* self-loops, Sorted graphs with repeated edges, the graphs of the tests
InitLayouts ==
    InitWith(LoopGraphs(MaxLoopNodes) \cup SortedGraphs(MaxMultiNodes)
                 \cup TestGraphs,
             {CHUNK_SIZE})

\* the dispatch on a narrow NI: for every node count the type can hold the
\* graph without edges and the complete graph, chunk sizes 1..MaxChunk
InitNarrow ==
    /\ graph \in ExtremeGraphs(Pow2(NarrowBits) - 1)
    /\ built = graph
    /\ new_id = [u \in Nodes(graph) |-> u]
    /\ relabeled = FALSE
    /\ chunk_size \in 1..MaxChunk
    /\ num_threads \in 1..MaxThreads
    /\ ni_modulus = Pow2(NarrowBits)
    /\ kpc = "idle"
    /\ next_chunk = 0
    /\ total_triangles = 0
    /\ pc = [w \in Workers |-> "idle"]
    /\ triangles = [w \in Workers |-> 0]
    /\ range = [w \in Workers |-> <<0, 0>>]
    /\ claim_log = << >>
    /\ enumerated = << >>
    /\ adds = [w \in Workers |-> 0]
    /\ results = << >>
    /\ BuilderIdle
    /\ ServerIdle
    /\ PageRankIdle

\* the kernel has not been entered: the empty graph, one thread
KernelIdle ==
    /\ graph = GraphOfEdges(0, {})
    /\ built = graph
    /\ new_id = [u \in Nodes(graph) |-> u]
    /\ relabeled = FALSE
    /\ chunk_size = CHUNK_SIZE
    /\ num_threads = 1
    /\ ni_modulus = Pow2(NIBits)
    /\ kpc = "idle"
    /\ next_chunk = 0
    /\ total_triangles = 0
    /\ pc = [w \in Workers |-> "idle"]
    /\ triangles = [w \in Workers |-> 0]
    /\ range = [w \in Workers |-> <<0, 0>>]
    /\ claim_log = << >>
    /\ enumerated = << >>
    /\ adds = [w \in Workers |-> 0]
    /\ results = << >>

\* create_graph is about to be called on an edge list
InitBuilder ==
    /\ KernelIdle
    /\ ServerIdle
    /\ PageRankIdle
    /\ edge_list \in EdgeLists(MaxId, MaxEdges)
    /\ csr_layout \in Layouts
    /\ orientation \in Orientations
    /\ csr = NoGraph

\* an Action has been received and is about to be converted
InitServer ==
    /\ KernelIdle
    /\ BuilderIdle
    /\ PageRankIdle
    /\ action \in [type : ActionTypes, body : Bodies]
    /\ flight = NotConverted

\* get_slice is about to be called with a slice
InitSlice ==
    /\ KernelIdle
    /\ BuilderIdle
    /\ ServerIdle
    /\ scores \in ScoreVectors(MaxLen)
    /\ slice \in Slices(MaxLen, MaxStep)
    /\ sliced = NotSliced

(***************************************************************************)
(* Actions.                                                                *)
(***************************************************************************)
\* result.get_slice(py, slice)
GetSlice ==
    /\ sliced = NotSliced
    /\ sliced' = get_slice(scores, slice)
    /\ UNCHANGED << scores, slice, kernel_vars, builder_vars, server_vars >>

\* FlightAction::try_from(action)
TryFrom ==
    /\ flight = NotConverted
    /\ flight' = try_from(action)
    /\ UNCHANGED << action, kernel_vars, builder_vars, pr_vars >>

\* create_graph(edge_list): the graph is built in one call
create_graph ==
    /\ csr = NoGraph
    /\ csr' = from_edge_list(edge_list, csr_layout, orientation)
    /\ UNCHANGED << edge_list, csr_layout, orientation, kernel_vars,
                    server_vars, pr_vars >>

\* mutant: to_degree_ordered is not called
relabel_graph_skipped ==
    /\ kpc # "running"
    /\ relabeled' = TRUE
    /\ UNCHANGED << builder_vars, server_vars, pr_vars,
                    graph, new_id, built, chunk_size, num_threads, ni_modulus,
                    kpc, next_chunk, total_triangles, pc, triangles, range,
                    claim_log, enumerated, adds, results >>

\* relabel_graph: exclusive access, so no kernel is running
relabel_graph ==
    /\ kpc # "running"
    /\ graph' = to_degree_ordered(graph)
    /\ new_id' = [u \in DOMAIN new_id |-> DegreeRank(graph, new_id[u])]
    /\ relabeled' = TRUE
    /\ UNCHANGED << builder_vars, server_vars, pr_vars,
                    built, chunk_size, num_threads, ni_modulus, kpc, next_chunk,
                    total_triangles, pc, triangles, range, claim_log,
                    enumerated, adds, results >>

\* global_triangle_count is entered: the two atomics are created and one
\* task per pool thread is spawned in the scope
Start ==
    /\ kpc = "idle"
    /\ kpc' = "running"
    /\ next_chunk' = 0
    /\ total_triangles' = 0
    /\ pc' = [w \in Workers |-> "claim"]
    /\ triangles' = [w \in Workers |-> 0]
    /\ range' = [w \in Workers |-> <<0, 0>>]
    /\ claim_log' = << >>
    /\ enumerated' = << >>
    /\ adds' = [w \in Workers |-> 0]
    /\ UNCHANGED << builder_vars, server_vars, pr_vars,
                    graph, built, new_id, relabeled, chunk_size, num_threads,
                    ni_modulus, results >>

\* mutant: total_triangles is kept from the previous invocation
StartAgain_keeps_total ==
    /\ kpc = "returned"
    /\ Len(results) < MaxRuns
    /\ kpc' = "running"
    /\ next_chunk' = 0
    /\ pc' = [w \in Workers |-> "claim"]
    /\ triangles' = [w \in Workers |-> 0]
    /\ range' = [w \in Workers |-> <<0, 0>>]
    /\ claim_log' = << >>
    /\ enumerated' = << >>
    /\ adds' = [w \in Workers |-> 0]
    /\ UNCHANGED << builder_vars, server_vars, pr_vars,
                    graph, built, new_id, relabeled, chunk_size, num_threads,
                    ni_modulus, total_triangles, results >>

\* global_triangle_count is entered again after it has returned: the two
\* atomics are locals of the call, created anew
StartAgain ==
    /\ kpc = "returned"
    /\ Len(results) < MaxRuns
    /\ kpc' = "running"
    /\ next_chunk' = 0
    /\ total_triangles' = 0
    /\ pc' = [w \in Workers |-> "claim"]
    /\ triangles' = [w \in Workers |-> 0]
    /\ range' = [w \in Workers |-> <<0, 0>>]
    /\ claim_log' = << >>
    /\ enumerated' = << >>
    /\ adds' = [w \in Workers |-> 0]
    /\ UNCHANGED << builder_vars, server_vars, pr_vars,
                    graph, built, new_id, relabeled, chunk_size, num_threads,
                    ni_modulus, results >>

\* the head of the worker's loop: fetch_add on next_chunk, then either leave
\* the loop or take the range [start, end)
Claim(w) ==
    /\ kpc = "running"
    /\ pc[w] = "claim"
    /\ next_chunk' = fetch_add(next_chunk, chunk_size, ni_modulus)
    /\ IF stop_claiming(next_chunk, graph.node_count)
       THEN /\ pc' = [pc EXCEPT ![w] = "add"]
            /\ UNCHANGED << range, claim_log >>
       ELSE /\ pc' = [pc EXCEPT ![w] = "process"]
            /\ range' = [range EXCEPT ![w] =
                           << next_chunk,
                              chunk_end(next_chunk, chunk_size, graph.node_count,
                                        ni_modulus) >>]
            /\ claim_log' = Append(claim_log, range'[w])
    /\ UNCHANGED << builder_vars, server_vars, pr_vars,
                    graph, built, new_id, relabeled, chunk_size, num_threads,
                    ni_modulus, kpc, total_triangles, triangles, enumerated, adds,
                    results >>

\* the head of the loop, observed for the first MaxClaims ranges only (on a
\* narrow NI a worker may claim for ever)
ClaimBounded(w) ==
    /\ Len(claim_log) < MaxClaims
    /\ Claim(w)

\* mutant: the chunk's count is also added to total_triangles in the loop
Process_adds_each_chunk(w) ==
    /\ kpc = "running"
    /\ pc[w] = "process"
    /\ triangles' = [triangles EXCEPT ![w] =
                       @ + count_chunk(graph, range[w][1], range[w][2])]
    /\ total_triangles' =
          total_triangles + count_chunk(graph, range[w][1], range[w][2])
    /\ enumerated' = visit(enumerated, range[w][1]..(range[w][2] - 1))
    /\ pc' = [pc EXCEPT ![w] = "claim"]
    /\ UNCHANGED << builder_vars, server_vars, pr_vars,
                    graph, built, new_id, relabeled, chunk_size, num_threads,
                    ni_modulus, kpc, next_chunk, range, claim_log, adds,
                    results >>

\* mutant: `triangles` is declared outside the spawned closure, one count
\* that every task sees
Process_shared_count(w) ==
    /\ kpc = "running"
    /\ pc[w] = "process"
    /\ triangles' = [x \in Workers |->
                       triangles[x] + count_chunk(graph, range[w][1], range[w][2])]
    /\ enumerated' = visit(enumerated, range[w][1]..(range[w][2] - 1))
    /\ pc' = [pc EXCEPT ![w] = "claim"]
    /\ UNCHANGED << builder_vars, server_vars, pr_vars,
                    graph, built, new_id, relabeled, chunk_size, num_threads,
                    ni_modulus, kpc, next_chunk, total_triangles, range,
                    claim_log, adds, results >>

\* the body of the worker's loop: `for u in start..end { ... }`
Process(w) ==
    /\ kpc = "running"
    /\ pc[w] = "process"
    /\ triangles' = [triangles EXCEPT ![w] =
                       @ + count_chunk(graph, range[w][1], range[w][2])]
    /\ enumerated' = visit(enumerated, range[w][1]..(range[w][2] - 1))
    /\ pc' = [pc EXCEPT ![w] = "claim"]
    /\ UNCHANGED << builder_vars, server_vars, pr_vars,
                    graph, built, new_id, relabeled, chunk_size, num_threads,
                    ni_modulus, kpc, next_chunk, total_triangles, range,
                    claim_log, adds, results >>

\* `total_triangles.fetch_add(triangles, Ordering::AcqRel)`, the task ends
\* (a u64: the counts of the graphs modelled stay far below 2^64)
FinalAdd(w) ==
    /\ kpc = "running"
    /\ pc[w] = "add"
    /\ total_triangles' = total_triangles + triangles[w]
    /\ adds' = [adds EXCEPT ![w] = @ + 1]
    /\ pc' = [pc EXCEPT ![w] = "done"]
    /\ UNCHANGED << builder_vars, server_vars, pr_vars,
                    graph, built, new_id, relabeled, chunk_size, num_threads,
                    ni_modulus, kpc, next_chunk, triangles, range, claim_log,
                    enumerated, results >>

\* the scope has joined: `total_triangles.load(SeqCst)` and return
Return ==
    /\ kpc = "running"
    /\ scope_joined(pc)
    /\ results' = Append(results,
                         [ graph |-> graph,
                           result |-> kernel_result(graph, total_triangles),
                           relabeled |-> relabeled ])
    /\ kpc' = "returned"
    /\ UNCHANGED << builder_vars, server_vars, pr_vars,
                    graph, built, new_id, relabeled, chunk_size, num_threads,
                    ni_modulus, next_chunk, total_triangles, pc, triangles,
                    range, claim_log, enumerated, adds >>

WorkerStep(w) == Claim(w) \/ Process(w) \/ FinalAdd(w)

Next ==
    \/ relabel_graph
    \/ Start
    \/ \E w \in Workers : Claim(w)
    \/ \E w \in Workers : Process(w)
    \/ \E w \in Workers : FinalAdd(w)
    \/ Return

Spec == Init /\ [][Next]_vars

SpecLayouts == InitLayouts /\ [][Next]_vars

\* successive invocations, relabel_graph possibly between them
NextRerun ==
    \/ Next
    \/ StartAgain

SpecRerun == InitLive /\ [][NextRerun]_vars

\* one invocation of the kernel on a narrow NI
NextNarrow ==
    \/ Start
    \/ \E w \in Workers : ClaimBounded(w)
    \/ \E w \in Workers : Process(w)
    \/ \E w \in Workers : FinalAdd(w)
    \/ Return

SpecNarrow == InitNarrow /\ [][NextNarrow]_vars

SpecBuilder == InitBuilder /\ [][create_graph]_vars

SpecServer == InitServer /\ [][TryFrom]_vars

SpecSlice == InitSlice /\ [][GetSlice]_vars

\* the pool's threads are scheduled by the operating system: a task that can
\* take a step eventually takes it, and the scope's owner resumes once the
\* scope has joined
Fairness ==
    /\ \A w \in 1..MaxThreads : WF_vars(w \in Workers /\ WorkerStep(w))
    /\ WF_vars(Return)

FairSpec == InitLive /\ [][Next]_vars /\ Fairness

(***************************************************************************)
(* What the claims speak about.                                            *)
(***************************************************************************)
Returned == kpc = "returned"

\* what the latest invocation returned
LastResult == results[Len(results)].result

\* the graph the latest invocation was given
LastGraph == results[Len(results)].graph

\* every worker has left its claim loop
AllStopped == \A w \in Workers : pc[w] \in {"add", "done"}

Overlap(r1, r2) == r1[1] < r2[2] /\ r2[1] < r1[2]

(***************************************************************************)
(* C1: on an undirected graph with strictly ascending slices and no        *)
(* self-loops, global_triangle_count returns the number of unordered       *)
(* triples of distinct, pairwise adjacent nodes: every triangle counts     *)
(* once and nothing else counts.                                           *)
(***************************************************************************)
C1_CountsEachTriangleOnce ==
    (Returned /\ IsDeduplicated(LastGraph) /\ ~HasSelfLoop(LastGraph))
        => /\ LastResult.kind = "count"
           /\ LastResult.value = NumTriangles(LastGraph)

\* the kernel has returned 4 on K4, two workers taking chunks of one node
C1_Witness ==
    /\ Returned
    /\ LastGraph = K4
    /\ LastResult.value = 4
    /\ num_threads = 2
    /\ chunk_size = 1

(***************************************************************************)
(* C2: the ranges [start, min(start + chunk, node_count)) claimed through  *)
(* fetch_add on next_chunk are pairwise disjoint and lie in                *)
(* [0, node_count); once every worker has left its loop their union is     *)
(* [0, node_count); every node is enumerated at most once while the        *)
(* kernel runs and exactly once when all chunks are processed, and no id   *)
(* >= node_count is ever enumerated.                                       *)
(***************************************************************************)
C2_ChunksPartitionNodes ==
    /\ \A i \in DOMAIN claim_log :
          /\ 0 <= claim_log[i][1]
          /\ claim_log[i][1] < claim_log[i][2]
          /\ claim_log[i][2] <= graph.node_count
          /\ claim_log[i][2] = Min(claim_log[i][1] + chunk_size, graph.node_count)
    /\ \A i, j \in DOMAIN claim_log :
          i # j => ~Overlap(claim_log[i], claim_log[j])
    /\ \A w1, w2 \in Workers :
          (w1 # w2 /\ pc[w1] = "process" /\ pc[w2] = "process")
              => ~Overlap(range[w1], range[w2])
    /\ \A u \in DOMAIN enumerated : u \in Nodes(graph) /\ enumerated[u] = 1
    /\ (kpc # "idle" /\ AllStopped)
          => /\ UNION { claim_log[i][1]..(claim_log[i][2] - 1) :
                          i \in DOMAIN claim_log } = Nodes(graph)
             /\ DOMAIN enumerated = Nodes(graph)

\* two workers have shared six chunks of one node each
C2_Witness ==
    /\ kpc = "running"
    /\ AllStopped
    /\ num_threads = 2
    /\ chunk_size = 1
    /\ Len(claim_log) = 6
    /\ triangles[1] > 0
    /\ triangles[2] > 0

(***************************************************************************)
(* C3: the value returned is the one a single thread enumerating all the   *)
(* nodes in one chunk computes, whatever the worker count, the chunk size  *)
(* and the interleaving of the claims and the final adds.                  *)
(***************************************************************************)
C3_Deterministic ==
    Returned => LastResult.value = count_sequential(LastGraph)

\* two workers, chunks of one node, both found triangles
C3_Witness ==
    /\ Returned
    /\ num_threads = 2
    /\ chunk_size = 1
    /\ triangles[1] > 0
    /\ triangles[2] > 0
    /\ LastResult.value = triangles[1] + triangles[2]

(***************************************************************************)
(* C4: the kernel has returned only when every spawned worker has left     *)
(* its claim loop and performed its final add: no worker holds an unadded  *)
(* local count when total_triangles is read.                               *)
(***************************************************************************)
C4_ReturnsAfterJoin ==
    Returned => \A w \in Workers : pc[w] = "done" /\ adds[w] = 1

\* a return after two workers, each with a count of its own to add
C4_Witness ==
    /\ Returned
    /\ num_threads = 2
    /\ \A w \in Workers : pc[w] = "done" /\ triangles[w] > 0

(***************************************************************************)
(* C5: under fair scheduling every worker of a running kernel eventually   *)
(* observes a start >= node_count, adds its count and stops, and the       *)
(* kernel eventually returns, for every graph and thread count (more       *)
(* threads than chunks and node_count = 0 included).                       *)
(***************************************************************************)
C5_RunsToCompletion ==
    /\ (kpc = "running") ~> (kpc = "returned")
    /\ \A w \in 1..MaxThreads :
          (kpc = "running" /\ w \in Workers)
              ~> (w \in Workers /\ pc[w] = "done")

\* an empty graph: two workers, no chunk, the kernel has returned 0
C5_Witness ==
    /\ Returned
    /\ graph.node_count = 0
    /\ num_threads = 2
    /\ \A w \in Workers : pc[w] = "done"
    /\ claim_log = << >>
    /\ LastResult.value = 0

(***************************************************************************)
(* C6: each worker adds to total_triangles exactly once, after its claim   *)
(* loop, the amount being its thread-local count: total_triangles is       *)
(* always the sum of the local counts of the finished workers, and what    *)
(* the kernel returns is the sum of all the local counts.                  *)
(***************************************************************************)
C6_TotalIsSumOfFinished ==
    /\ \A w \in Workers : adds[w] = IF pc[w] = "done" THEN 1 ELSE 0
    /\ total_triangles
         = SumOver({w \in Workers : pc[w] = "done"}, triangles)
    /\ Returned => LastResult.value = SumOver(Workers, triangles)

\* one worker has added a nonzero count, the other still holds one
C6_Witness ==
    /\ kpc = "running"
    /\ num_threads = 2
    /\ pc[1] = "done"
    /\ pc[2] = "add"
    /\ triangles[1] > 0
    /\ triangles[2] > 0
    /\ total_triangles = triangles[1]

(***************************************************************************)
(* C7: self-loops are skipped: on an undirected graph with strictly        *)
(* ascending slices an entry v == u of neighbors(u) contributes nothing,   *)
(* so the kernel returns what it returns on the same graph with the        *)
(* self-loops removed. (`if v > u { break; }` lets v == u through: the     *)
(* code counts 1 + the number of other neighbours for every self-loop.)    *)
(***************************************************************************)
C7_SelfLoopsSkipped ==
    (Returned /\ IsDeduplicated(LastGraph))
        => LastResult.value = count_sequential(WithoutSelfLoops(LastGraph))

(***************************************************************************)
(* C8, as claimed: the triangle counter invoked on a graph whose slices    *)
(* are not deduplicated yields the error LayoutViolation instead of a      *)
(* count.                                                                  *)
(***************************************************************************)
C8_LayoutViolationSurfaced ==
    (Returned /\ ~IsDeduplicated(LastGraph)) => LastResult.kind = "LayoutViolation"

(***************************************************************************)
(* C8, amended: the kernel checks no layout and has no error to return:    *)
(* on an undirected graph whose ascending slices hold repeated entries it  *)
(* returns a count, the one its enumeration computes on those slices.      *)
(***************************************************************************)
C8_CountWithoutLayoutCheck ==
    (Returned /\ ~IsDeduplicated(LastGraph))
        => /\ LastResult.kind = "count"
           /\ LastResult.value = count_sequential(LastGraph)

\* a triangle with one edge stored twice has been counted twice
C8_Witness ==
    /\ Returned
    /\ ~IsDeduplicated(LastGraph)
    /\ NumTriangles(LastGraph) = 1
    /\ LastResult.kind = "count"
    /\ LastResult.value = 2

(***************************************************************************)
(* C9: relabelling preserves the triangle count: on an undirected          *)
(* Deduplicated graph (self-loops allowed) the kernel invoked after        *)
(* relabel_graph returns the value its enumeration gives on the graph as   *)
(* it was before relabel_graph (which by C3 is what the kernel returns     *)
(* when invoked before relabel_graph).                                     *)
(***************************************************************************)
C9_RelabelPreservesCount ==
    (Returned /\ results[Len(results)].relabeled /\ IsDeduplicated(built))
        => LastResult.value = count_sequential(built)

\* a count on a graph with triangles whose nodes the relabelling has moved
C9_Witness ==
    /\ Returned
    /\ results[Len(results)].relabeled
    /\ IsDeduplicated(built)
    /\ LastGraph # built
    /\ NumTriangles(built) > 1
    /\ LastResult.value = NumTriangles(built)
    /\ num_threads = 2

(***************************************************************************)
(* C10: after relabel_graph the ids are in non-increasing degree order,    *)
(* nodes of equal degree keep their original relative order (each node     *)
(* keeping its degree under its new id), and every neighbour slice is      *)
(* ascending under the new ids.                                            *)
(***************************************************************************)
C10_DegreeOrdered ==
    relabeled
        => /\ \A i, j \in Nodes(graph) :
                 i < j => degree(graph, i) >= degree(graph, j)
           /\ \A a, b \in Nodes(built) :
                 (a < b /\ degree(built, a) = degree(built, b))
                     => new_id[a] < new_id[b]
           /\ \A a \in Nodes(built) :
                 degree(graph, new_id[a]) = degree(built, a)
           /\ IsSorted(graph)

\* a relabelling that moved a node of lower degree behind one of higher degree
C10_Witness ==
    /\ relabeled
    /\ graph # built
    /\ \E a, b \in Nodes(built) :
          a < b /\ degree(built, a) < degree(built, b) /\ new_id[b] < new_id[a]
    /\ \E a, b \in Nodes(built) :
          a < b /\ degree(built, a) = degree(built, b) /\ degree(built, a) > 0

\* create_graph has returned
Built == csr # NoGraph

\* the records of the edge list that touch node u
Incident(u) ==
    { i \in DOMAIN edge_list : edge_list[i][1] = u \/ edge_list[i][2] = u }

(***************************************************************************)
(* C11: in a graph built with Undirected orientation adjacency is          *)
(* symmetric: for u # v, v is in neighbors(u) exactly when u is in         *)
(* neighbors(v), as often in the one as in the other; every input edge     *)
(* (u, v) has put v in neighbors(u) and u in neighbors(v); and degree(u)   *)
(* counts every record incident to u (a self-loop once), or under          *)
(* Deduplicated every distinct neighbour of u.                             *)
(***************************************************************************)
C11_UndirectedSymmetric ==
    (Built /\ orientation = "Undirected")
        => /\ \A u, v \in Nodes(csr) :
                 u # v => /\ Adjacent(csr, u, v) <=> Adjacent(csr, v, u)
                          /\ Occurrences(neighbors(csr, u), v)
                               = Occurrences(neighbors(csr, v), u)
           /\ \A i \in DOMAIN edge_list :
                 /\ Adjacent(csr, edge_list[i][1], edge_list[i][2])
                 /\ Adjacent(csr, edge_list[i][2], edge_list[i][1])
           /\ \A u \in Nodes(csr) :
                 degree(csr, u) =
                    IF csr_layout = "Deduplicated"
                    THEN Cardinality({ v \in Nodes(csr) :
                                         \E i \in Incident(u) :
                                            {edge_list[i][1], edge_list[i][2]}
                                               = {u, v} })
                    ELSE Cardinality(Incident(u))

\* tests::undirected_graph_from_edge_list: the edges (0, 1) and (0, 2)
C11_Witness ==
    /\ Built
    /\ orientation = "Undirected"
    /\ edge_list = << <<0, 1>>, <<0, 2>> >>
    /\ csr.node_count = 3
    /\ degree(csr, 0) = 2
    /\ degree(csr, 1) = 1
    /\ degree(csr, 2) = 1
    /\ neighbors(csr, 0) = <<1, 2>>
    /\ neighbors(csr, 1) = <<0>>
    /\ neighbors(csr, 2) = <<0>>

\* what C12 says of a Directed graph apart from its edge_count
DirectedShape ==
    /\ \A u, v \in Nodes(csr) :
          Occurrences(out_neighbors(csr, u), v)
             = Occurrences(in_neighbors(csr, v), u)
    /\ \A u \in Nodes(csr) :
          /\ out_degree(csr, u) = Len(out_neighbors(csr, u))
          /\ in_degree(csr, u) = Len(in_neighbors(csr, u))
          /\ csr_layout # "Deduplicated"
                => /\ out_degree(csr, u)
                        = Cardinality({ i \in DOMAIN edge_list :
                                          edge_list[i][1] = u })
                   /\ in_degree(csr, u)
                        = Cardinality({ i \in DOMAIN edge_list :
                                          edge_list[i][2] = u })
    /\ edge_list # << >>
          => /\ csr.node_count - 1 \in
                   UNION { {edge_list[i][1], edge_list[i][2]} :
                             i \in DOMAIN edge_list }
             /\ \A i \in DOMAIN edge_list :
                   edge_list[i][1] < csr.node_count
                      /\ edge_list[i][2] < csr.node_count
    /\ edge_list = << >> => csr.node_count = 0

(***************************************************************************)
(* C12, as claimed: in a graph built with Directed orientation v occurs in *)
(* out_neighbors(u) as often as u occurs in in_neighbors(v) (the           *)
(* in-neighbours are the construction run on the reversed edge list),      *)
(* out_degree and in_degree are the lengths of those slices, node_count is *)
(* 1 + the maximum id, and edge_count is the number of input edges.        *)
(***************************************************************************)
C12_DirectedFromEdgeList ==
    (Built /\ orientation = "Directed")
        => /\ DirectedShape
           /\ csr.edge_count = Len(edge_list)

(***************************************************************************)
(* C12, amended: as claimed, but edge_count is len(targets), the sum of    *)
(* the out-degrees (and of the in-degrees): the number of input edges      *)
(* under Unsorted and Sorted, the number of distinct input edges under     *)
(* Deduplicated, where repeated records are compacted.                     *)
(***************************************************************************)
C12_DirectedEdgeCountIsTargets ==
    (Built /\ orientation = "Directed")
        => /\ DirectedShape
           /\ csr.edge_count
                = SumOver(Nodes(csr),
                          [u \in Nodes(csr) |-> out_degree(csr, u)])
           /\ csr.edge_count
                = SumOver(Nodes(csr),
                          [u \in Nodes(csr) |-> in_degree(csr, u)])
           /\ csr.edge_count =
                 IF csr_layout = "Deduplicated"
                 THEN Cardinality(RangeOf(edge_list))
                 ELSE Len(edge_list)

\* a Deduplicated graph of the records (0, 1), (2, 1), (0, 1): two edges
C12_Witness ==
    /\ Built
    /\ orientation = "Directed"
    /\ csr_layout = "Deduplicated"
    /\ edge_list = << <<0, 1>>, <<2, 1>>, <<0, 1>> >>
    /\ csr.edge_count = 2
    /\ out_neighbors(csr, 0) = <<1>>
    /\ in_neighbors(csr, 1) = <<0, 2>>
    /\ in_degree(csr, 1) = 2

\* no record of the edge list is a self-loop
NoSelfLoopRecords == \A i \in DOMAIN edge_list : edge_list[i][1] # edge_list[i][2]

(***************************************************************************)
(* C13: CSR round-trip. For an undirected edge list without self-loops     *)
(* (repeated records allowed) built with layout Deduplicated, every        *)
(* neighbors(u) read back is strictly ascending and the lengths of the     *)
(* slices add up to 2 * edge_count(), edge_count() being the number of     *)
(* distinct undirected edges of the list.                                  *)
(***************************************************************************)
C13_CsrRoundTrip ==
    (/\ Built
     /\ orientation = "Undirected"
     /\ csr_layout = "Deduplicated"
     /\ NoSelfLoopRecords)
        => /\ \A u \in Nodes(csr) : IsStrictlyAscending(neighbors(csr, u))
           /\ SumOver(Nodes(csr), [u \in Nodes(csr) |-> degree(csr, u)])
                = 2 * csr.edge_count
           /\ csr.edge_count
                = Cardinality({ {edge_list[i][1], edge_list[i][2]} :
                                  i \in DOMAIN edge_list })

\* the records (2, 0), (0, 1), (1, 0): two undirected edges, four entries
C13_Witness ==
    /\ Built
    /\ orientation = "Undirected"
    /\ csr_layout = "Deduplicated"
    /\ edge_list = << <<2, 0>>, <<0, 1>>, <<1, 0>> >>
    /\ neighbors(csr, 0) = <<1, 2>>
    /\ neighbors(csr, 1) = <<0>>
    /\ neighbors(csr, 2) = <<0>>
    /\ csr.edge_count = 2

\* the conversion has been made
Converted == flight # NotConverted

KnownTypes == {"create", "list", "compute", "relabel"}

(***************************************************************************)
(* C14: converting an Action fails with InvalidArgument for every action   *)
(* type other than "create", "list", "compute" and "relabel", whatever the *)
(* body, and never fails with InvalidArgument for one of those four.       *)
(***************************************************************************)
C14_UnknownTypeInvalidArgument ==
    Converted
        => /\ action.type \notin KnownTypes
                => /\ ~flight.ok
                   /\ flight.code = "InvalidArgument"
                   /\ flight.message = <<"Unknown action type: ", action.type>>
           /\ action.type \in KnownTypes
                => (flight.ok \/ flight.code # "InvalidArgument")

\* "Create" is not "create": refused although the body is a create config
C14_Witness ==
    /\ Converted
    /\ action.type = "Create"
    /\ action.body.syntax = "json"
    /\ action.body.fields = {"graph_name", "file_format", "path"}
    /\ action.body.mistyped = {}
    /\ ~flight.ok
    /\ flight.code = "InvalidArgument"

\* the config the action type carries in its body
ConfigOf(action_type) ==
    CASE action_type = "create" -> "CreateGraphFromFileConfig"
      [] action_type = "compute" -> "ComputeConfig"
      [] action_type = "relabel" -> "RelabelConfig"

\* the body is a JSON object that holds every required key of the config,
\* each key the config declares with a value of its type
ExpectedShape(config, body) ==
    /\ body.syntax = "json"
    /\ \A f \in required_fields(config) : f \in body.fields
    /\ \A f \in body.fields :
          f \in required_fields(config) \cup default_fields(config)
             => f \notin body.mistyped

(***************************************************************************)
(* C15: for "create", "compute" and "relabel" a body that is not a         *)
(* well-formed JSON document of the shape of the type's config makes the   *)
(* conversion fail with Internal, the message starting "JsonError: ", and  *)
(* no FlightAction is produced; a body of that shape yields the variant    *)
(* of the type.                                                            *)
(***************************************************************************)
C15_BadJsonIsInternal ==
    (Converted /\ action.type \in {"create", "compute", "relabel"})
        => IF ExpectedShape(ConfigOf(action.type), action.body)
           THEN /\ flight.ok
                /\ flight.kind = CASE action.type = "create" -> "Create"
                                   [] action.type = "compute" -> "Compute"
                                   [] action.type = "relabel" -> "Relabel"
                /\ flight.config.config = ConfigOf(action.type)
           ELSE /\ ~flight.ok
                /\ flight.code = "Internal"
                /\ flight.message[1] = "JsonError: "

\* a compute whose well-formed body lacks "algorithm"
C15_Witness ==
    /\ Converted
    /\ action.type = "compute"
    /\ action.body.syntax = "json"
    /\ action.body.fields = {"graph_name", "property_key"}
    /\ ~flight.ok
    /\ flight.code = "Internal"
    /\ flight.message = <<"JsonError: ", "missing field">>

(***************************************************************************)
(* C16: counting is idempotent: invocations of global_triangle_count on    *)
(* the same graph return identical values, and each invocation starts      *)
(* with the cursor at 0, the total at 0 and every local count at 0,        *)
(* whatever the previous invocation left.                                  *)
(***************************************************************************)
C16_Idempotent ==
    /\ \A i, j \in DOMAIN results :
          results[i].graph = results[j].graph
             => results[i].result = results[j].result
    /\ (kpc = "running" /\ claim_log = << >> /\ \A w \in Workers : pc[w] = "claim")
          => /\ next_chunk = 0
             /\ total_triangles = 0
             /\ \A w \in Workers : triangles[w] = 0

\* the second invocation on the two disjoint triangles has returned 2 again
C16_Witness ==
    /\ Returned
    /\ Len(results) = 2
    /\ results[1].graph = TwoComponents
    /\ results[2].graph = TwoComponents
    /\ results[1].result.value = 2
    /\ results[2].result.value = 2
    /\ num_threads = 2
    /\ chunk_size = 1

\* worker w's step leaves what the other workers hold as it was
OthersUntouched(w) ==
    \A o \in Workers \ {w} :
        /\ pc'[o] = pc[o]
        /\ triangles'[o] = triangles[o]
        /\ range'[o] = range[o]
        /\ adds'[o] = adds[o]

(***************************************************************************)
(* C17: while the kernel runs the graph is unchanged by every step, and a  *)
(* worker step modifies, beside the worker's own position, range and local *)
(* count, only next_chunk (the claim) or total_triangles (the final add):  *)
(* not the graph, not the parameters of the run, not what another worker   *)
(* holds.                                                                  *)
(***************************************************************************)
C17_WorkersOnlyTouchAtomics ==
    [][ /\ (kpc = "running") => (graph' = graph)
        /\ \A w \in Workers :
              WorkerStep(w)
                 => /\ graph' = graph
                    /\ chunk_size' = chunk_size
                    /\ num_threads' = num_threads
                    /\ ni_modulus' = ni_modulus
                    /\ kpc' = kpc
                    /\ results' = results
                    /\ OthersUntouched(w)
                    /\ Claim(w) => total_triangles' = total_triangles
                    /\ Process(w) => /\ total_triangles' = total_triangles
                                     /\ next_chunk' = next_chunk
                    /\ FinalAdd(w) => next_chunk' = next_chunk ]_vars

\* the first worker has claimed, processed and added its count; the second
\* holds the last chunk of K4, not yet processed
C17_Witness ==
    /\ kpc = "running"
    /\ graph = K4
    /\ num_threads = 2
    /\ pc[1] = "done"
    /\ pc[2] = "process"
    /\ total_triangles > 0
    /\ triangles[2] = 0
    /\ range[2] = <<3, 4>>
    /\ next_chunk > graph.node_count

\* the scan of neighbors(u) against neighbors(v) as the kernel runs it
PairTrace(g, u, v) == scan_trace(neighbors(g, u), neighbors(g, v), v, 1, 1)

\* the pairs (u, v) the kernel processes: v in neighbors(u), v <= u
ProcessedPairs(g) ==
    { p \in Nodes(g) \X Nodes(g) : Adjacent(g, p[1], p[2]) /\ p[2] <= p[1] }

\* the scan of one pair of slices keeps to what C18 says
ScanIsMonotone(g, u, v) ==
    LET t == PairTrace(g, u, v)
    IN /\ \A k \in DOMAIN t : t[k].from <= t[k].pos
       /\ \A k \in DOMAIN t : k > 1 => t[k].from = t[k - 1].pos
       /\ SumOver(DOMAIN t, [k \in DOMAIN t |-> t[k].taken])
             <= degree(g, u) + degree(g, v)
       /\ \A k \in DOMAIN t :
             t[k].pos > degree(g, u)
                => \A m \in DOMAIN t : m >= k => (t[m].hit = 0 /\ t[m].pos = t[k].pos)
       /\ SumOver(DOMAIN t, [k \in DOMAIN t |-> t[k].hit])
             = intersect(neighbors(g, u), neighbors(g, v), v, 1, 1, 0)

(***************************************************************************)
(* C18: for each pair (u, v) of the inner enumeration the position of the  *)
(* put-back iterator over neighbors(u) never moves backwards across the    *)
(* successive w of neighbors(v); it yields at most deg(u) + deg(v)         *)
(* elements; once neighbors(u) is exhausted the remaining w contribute     *)
(* nothing; and with strictly ascending slices the pair contributes the    *)
(* number of common neighbours w of u and v with w <= v. (The scan is      *)
(* checked on every pair of slices v <= u of the graph, the processed      *)
(* pairs among them.)                                                      *)
(***************************************************************************)
C18_PutBackScan ==
    Returned
        => /\ \A u, v \in Nodes(LastGraph) :
                 v <= u => ScanIsMonotone(LastGraph, u, v)
           /\ IsDeduplicated(LastGraph)
                => \A p \in ProcessedPairs(LastGraph) :
                      intersect(neighbors(LastGraph, p[1]),
                                neighbors(LastGraph, p[2]), p[2], 1, 1, 0)
                         = Cardinality({ w \in Nodes(LastGraph) :
                                           /\ Adjacent(LastGraph, p[1], w)
                                           /\ Adjacent(LastGraph, p[2], w)
                                           /\ w <= p[2] })

\* the diamond, pair (3, 2): for w = 0 the iterator yields 1 and puts it
\* back, for w = 1 it yields 1 again, a triangle
C18_Witness ==
    /\ Returned
    /\ LastGraph = Diamond
    /\ <<3, 2>> \in ProcessedPairs(LastGraph)
    /\ PairTrace(LastGraph, 3, 2)
          = << [w |-> 0, from |-> 1, pos |-> 1, hit |-> 0, taken |-> 1],
               [w |-> 1, from |-> 1, pos |-> 1, hit |-> 1, taken |-> 1] >>

\* how often the edge {a, b} is stored
Mult(g, a, b) == Occurrences(neighbors(g, a), b)

\* the triangle T with its nodes named in ascending order
Lo(T) == CHOOSE a \in T : \A x \in T : a <= x

Hi(T) == CHOOSE c \in T : \A x \in T : x <= c

Mid(T) == CHOOSE b \in T : b # Lo(T) /\ b # Hi(T)

\* some edge of some triangle is stored more than once
RepeatedTriangleEdge(g) ==
    \E T \in Triangles(g) : \E a, b \in T : a # b /\ Mult(g, a, b) > 1

(***************************************************************************)
(* C19, as claimed: on a Sorted graph without self-loops, whenever an edge *)
(* belonging to a triangle is present more than once                       *)
(* global_triangle_count returns more than the number of distinct          *)
(* triangles, and it never returns less than that number.                  *)
(***************************************************************************)
C19_MultiEdgesOvercount ==
    (Returned /\ IsSorted(LastGraph) /\ ~HasSelfLoop(LastGraph))
        => /\ LastResult.value >= NumTriangles(LastGraph)
           /\ RepeatedTriangleEdge(LastGraph)
                => LastResult.value > NumTriangles(LastGraph)

(***************************************************************************)
(* C19, amended: on a Sorted graph without self-loops a triangle a < b < c *)
(* is counted Mult(a, b) * Mult(b, c) times, the copies of its edge        *)
(* {a, c} not counting: global_triangle_count never returns less than the  *)
(* number of distinct triangles, and returns more exactly when some        *)
(* triangle has its edge {a, b} or its edge {b, c} stored more than once.  *)
(***************************************************************************)
C19_OvercountByLowAndHighEdge ==
    (Returned /\ IsSorted(LastGraph) /\ ~HasSelfLoop(LastGraph))
        => /\ LastResult.value
                = SumOver(Triangles(LastGraph),
                          [T \in Triangles(LastGraph) |->
                              Mult(LastGraph, Lo(T), Mid(T))
                                 * Mult(LastGraph, Mid(T), Hi(T))])
           /\ LastResult.value >= NumTriangles(LastGraph)
           /\ LastResult.value > NumTriangles(LastGraph)
                <=> \E T \in Triangles(LastGraph) :
                       \/ Mult(LastGraph, Lo(T), Mid(T)) > 1
                       \/ Mult(LastGraph, Mid(T), Hi(T)) > 1

\* the triangle {0, 1, 2} with its edge {0, 2} stored twice: counted once
C19_Witness ==
    /\ Returned
    /\ LastGraph.node_count = 3
    /\ neighbors(LastGraph, 0) = <<1, 2, 2>>
    /\ neighbors(LastGraph, 1) = <<0, 2>>
    /\ neighbors(LastGraph, 2) = <<0, 0, 1>>
    /\ RepeatedTriangleEdge(LastGraph)
    /\ NumTriangles(LastGraph) = 1
    /\ LastResult.value = 1

\* the chunks of a graph of n nodes: ceil(n / chunk)
NumChunks(n, chunk) == (n + chunk - 1) \div chunk

(***************************************************************************)
(* C20: the chunk cursor never wraps around the width of NI, for every     *)
(* node_count NI can hold and every worker count: the starts are handed    *)
(* out in ascending order, no start below node_count after one at or       *)
(* above it; start + chunk does not overflow, every range claimed has      *)
(* start < end; the cursor stands beyond every start handed out and, each  *)
(* worker having made exactly one fetch_add that returned                  *)
(* start >= node_count, ends at chunk * (ceil(node_count / chunk) +        *)
(* workers); no node is enumerated twice. (On an NI of NarrowBits bits     *)
(* the cursor wraps: fetch_add is modular and nothing bounds node_count    *)
(* away from 2^width.)                                                     *)
(***************************************************************************)
C20_CursorNeverWraps ==
    /\ \A i, j \in DOMAIN claim_log :
          i < j => claim_log[i][1] < claim_log[j][1]
    /\ \A i \in DOMAIN claim_log :
          /\ claim_log[i][1] < claim_log[i][2]
          /\ kpc = "running" => next_chunk >= claim_log[i][1] + chunk_size
    /\ \A u \in DOMAIN enumerated : enumerated[u] <= 1
    /\ (kpc = "running" /\ AllStopped)
          => next_chunk
               = chunk_size * (NumChunks(graph.node_count, chunk_size) + num_threads)

\* get_slice has returned
Sliced == sliced # NotSliced

\* the indices slice.indices gave for the call
Normalized == indices(slice, Len(scores))

\* the elements Python's slicing selects for normalized indices: from index
\* i on, every step-th while the index is before stop in the direction of
\* the step
RECURSIVE PythonSelects(_, _, _, _)
PythonSelects(sc, i, stop, step) ==
    IF (step > 0 /\ i < stop) \/ (step < 0 /\ i > stop)
    THEN << sc[i + 1] >> \o PythonSelects(sc, i + step, stop, step)
    ELSE << >>

(***************************************************************************)
(* C21: whenever get_slice returns a value, for the normalized indices     *)
(* (start, stop, step) of the slice over the scores, the list returned     *)
(* holds exactly the elements Python's slicing selects: scores[start],     *)
(* scores[start + step], ... while the index is < stop (step > 0) or       *)
(* > stop (step < 0), the empty list when stop <= start with step > 0 or   *)
(* stop >= start with step < 0; and the access never leaves the vector.    *)
(* (For step < 0 and stop >= start the code takes the range                *)
(* start..start + 1 and returns [scores[start]].)                          *)
(***************************************************************************)
C21_SliceMatchesPython ==
    Sliced
        => /\ sliced.ok
                => sliced.list
                     = PythonSelects(scores, Normalized.start, Normalized.stop,
                                     Normalized.step)
           /\ ~sliced.ok => sliced.error # "panic"

====
